---- MODULE Spec2Model ----
(***************************************************************************)
(* The blog client of src/src/components/BlogCard.tsx (lines 154-415, the  *)
(* BlogApp component and its API functions) and the create form of         *)
(* src/unnamed/part_001 (lines 68-212), together with the behaviour of     *)
(* the query cache (useQuery / useMutation / invalidateQueries) that the   *)
(* component drives, and of the HTTP server and network it talks to.       *)
(*                                                                         *)
(* One action per UI handler, per response callback, per cache timer and   *)
(* per server step.  The browser runs them one at a time on one event      *)
(* loop, so every action is atomic.                                        *)
(***************************************************************************)
EXTENDS Integers, FiniteSets, Sequences, Bags, TLC

\* ---------------------------------------------------------------- bounds
\* How many POSTs the user issues in one run.
MaxCreates == 1
\* How many requests the user lets run at a time: fetches of a query,
\* cancelled GETs still outstanding, and POSTs.
MaxActive == 2

\* ------------------------------------------------------ program constants
\* useState<number | null>(null): the value standing for null.
null == -1
\* The query cache retries a failed queryFn this many times before it
\* reports the error; new QueryClient({defaultOptions}) does not override it.
retry == 3

\* The collections the server may hold when the page is opened: two blogs,
\* one of them with the identifier 0.
InitialCollections == {{0, 1}}

\* Every identifier the server can ever assign within MaxCreates creates.
Ids == 0 .. (1 + MaxCreates)

\* ------------------------------------------------------------- query keys
\* queryKey: ["blogs"]
ListKey == [fam |-> "blogs", id |-> null]
\* queryKey: ["blog", selectedBlogId]
DetailKey(id) == [fam |-> "blog", id |-> id]
Keys == {ListKey} \cup {DetailKey(i) : i \in Ids}

\* An enabled that only asks for a selection: selectedBlogId !== null.
EnabledNotNull(id) == id # null

\* enabled: !!selectedBlogId  (null and 0 are falsy)
Enabled(id) == id # null /\ id # 0

\* The state of a query the cache has just created: no data, no error, no
\* fetch running.
InitialQueryState ==
    [status        |-> "pending",
     fetchStatus   |-> "idle",
     hasData       |-> FALSE,
     data          |-> {},
     error         |-> "",
     failureCount  |-> 0,
     retryWait     |-> FALSE,
     retryCancelled |-> FALSE,
     isInvalidated |-> FALSE,
     expired       |-> FALSE]

\* An Error thrown without a message.
FetchErrorMessageEmpty(k) == ""

\* throw new Error("Failed to fetch blogs") / ("Failed to fetch blog post")
FetchErrorMessage(k) ==
    IF k = ListKey THEN "Failed to fetch blogs" ELSE "Failed to fetch blog post"

VARIABLES
    mounted,         \* BlogApp has been rendered inside QueryClientProvider
    selectedBlogId,  \* useState<number | null>(null)
    isCreating,      \* useState(false)
    draft,           \* the values of CreateBlogForm's useForm
    queries,         \* the query cache: one state per query key
    network,         \* bag of HTTP requests sent and not yet answered
    serverBlogs,     \* the collection held by the server
    creates,         \* POSTs issued so far
    mutation,        \* createMutation: status and data of the latest mutate()
    alertOpen,       \* alert("Failed to create post...") is on screen
    lastOp           \* history: what the last step did, when it is one of Noted

vars == <<mounted, selectedBlogId, isCreating, draft, queries, network,
          serverBlogs, creates, mutation, alertOpen, lastOp>>


\* ---------------------------------------------------------------- history
\* The outcomes of a step that lastOp records; every other step records
\* "none".  joined, joinedList: a caller shared the fetch in flight of a
\* detail key, of the list key.  dropped: the response of a cancelled fetch
\* arrived.  late: a response arrived for a detail key that is not selected
\* any more.  createFailed: a POST failed.  blocked: a submit was stopped by
\* the form's validation.
Noted == {"joined", "joinedList", "dropped", "late", "createFailed", "blocked"}

Note(effect) == IF effect \in Noted THEN effect ELSE "none"

\* ------------------------------------------------------------ create form
\* A text is a sequence of one-character strings.
\* defaultValues of useForm
defaultValues ==
    [title |-> <<>>, coverImage |-> <<>>, category |-> <<>>, description |-> <<>>]

\* A draft that passes formSchema; its categories field reads "T, L".
ValidDraft ==
    [title       |-> <<"H", "i">>,
     coverImage  |-> <<"h", ":", "x">>,
     category    |-> <<"T", ",", " ", "L">>,
     description |-> <<"a", "b", "c", "d", "e", "f", "g", "h", "i", "j">>]

\* What the user may type into the form.
SampleDrafts ==
    {defaultValues,
     ValidDraft,
     [ValidDraft EXCEPT !.title = <<>>]}

Letters == {"a", "b", "c", "d", "e", "f", "g", "h", "i", "j", "x",
            "H", "T", "L"}

\* z.string().url(): the text parses as a URL, which needs a scheme (letters)
\* followed by a colon.
IsUrl(t) ==
    \E i \in 2 .. Len(t) :
        /\ t[i] = ":"
        /\ \A j \in 1 .. (i - 1) : t[j] \in Letters

\* A schema that lets an empty title pass.
formSchemaTitleOptional(d) ==
    /\ IsUrl(d.coverImage)
    /\ Len(d.category) >= 2
    /\ Len(d.description) >= 10

\* formSchema: title min 2, coverImage url, category min 2, description min 10
formSchema(d) ==
    /\ Len(d.title) >= 2
    /\ IsUrl(d.coverImage)
    /\ Len(d.category) >= 2
    /\ Len(d.description) >= 10

\* ------------------------------------------------------- createBlog payload
\* What String.prototype.trim removes (of the characters a category field
\* is typed with here).
Whitespace == {" "}

RECURSIVE TrimStart(_)
TrimStart(t) ==
    IF t # <<>> /\ Head(t) \in Whitespace THEN TrimStart(Tail(t)) ELSE t

RECURSIVE TrimEnd(_)
TrimEnd(t) ==
    IF t # <<>> /\ t[Len(t)] \in Whitespace
    THEN TrimEnd(SubSeq(t, 1, Len(t) - 1))
    ELSE t

\* A trim that returns its text as it is.
TrimNothing(t) == t

\* c.trim()
trim(t) == TrimEnd(TrimStart(t))

\* text.split(","): the pieces between the commas, in order; a text without
\* a comma (the empty text too) is one piece.
RECURSIVE split(_)
split(t) ==
    IF \A i \in 1 .. Len(t) : t[i] # ","
    THEN <<t>>
    ELSE LET i == CHOOSE j \in 1 .. Len(t) :
                      /\ t[j] = ","
                      /\ \A h \in 1 .. (j - 1) : t[h] # ","
         IN  <<SubSeq(t, 1, i - 1)>> \o split(SubSeq(t, i + 1, Len(t)))

\* blogPayload of createBlog: the form values, with category turned into the
\* list newBlog.category.split(",").map(c => c.trim()), and content set to
\* the description.  (date, the clock's reading, is left out.)
blogPayload(newBlog) ==
    [title       |-> newBlog.title,
     coverImage  |-> newBlog.coverImage,
     description |-> newBlog.description,
     category    |-> [i \in 1 .. Len(split(newBlog.category)) |->
                         trim(split(newBlog.category)[i])],
     content     |-> newBlog.description]

\* ------------------------------------------------------------ the network
\* sent is the JSON body of the request; a GET has none.
GetRequest(k) ==
    [method |-> "GET", key |-> k, live |-> TRUE, processed |-> FALSE,
     body |-> {}, sent |-> <<>>]

\* fetch(".../blogs", {method: "POST", body: JSON.stringify(blogPayload)})
PostRequest(newBlog) ==
    [method |-> "POST", key |-> ListKey, live |-> TRUE, processed |-> FALSE,
     body |-> {}, sent |-> blogPayload(newBlog)]

Requests(net) == BagToSet(net)

\* The GETs of key k still outstanding, whether or not the cache still
\* listens to them.
Outstanding(net, k) ==
    {r \in Requests(net) : r.method = "GET" /\ r.key = k}

\* How many requests of the set rs the bag net holds, copies counted.
Copies(net, rs) ==
    LET Sum[S \in SUBSET rs] ==
            IF S = {} THEN 0
            ELSE LET r == CHOOSE x \in S : TRUE
                 IN  CopiesIn(r, net) + Sum[S \ {r}]
    IN  Sum[rs]

OutstandingCount(net, k) == Copies(net, Outstanding(net, k))

\* The GETs of key k whose response the query's retryer still awaits.
LiveRequests(net, k) == {r \in Outstanding(net, k) : r.live}

\* The GETs of key k whose fetch was cancelled: the request was sent without
\* an abort signal, so it stays outstanding, and its response is dropped.
Orphans(net, k) == {r \in Outstanding(net, k) : ~r.live}

Send(net, r) == net (+) SetToBag({r})

Remove(net, r) == net (-) SetToBag({r})

\* ---------------------------------------------------------- the query cache
\* The requests running: the queries that are fetching (an attempt is out or
\* a retry is scheduled), the cancelled GETs still outstanding, the POSTs.
Active(qs, net) ==
    Cardinality({k \in Keys : qs[k].fetchStatus = "fetching"})
        + Copies(net, {r \in Requests(net) : r.method = "POST" \/ ~r.live})

\* The user starts a further request only while fewer than MaxActive run.
WithinBound(qs, net) ==
    Active(qs, net) > Active(queries, network) => Active(qs, net) <= MaxActive

\* isStale(query, options): no data yet, invalidated, or staleTime elapsed.
IsStale(q) == ~q.hasData \/ q.isInvalidated \/ q.expired

\* A 'fetch' transition that always goes back to pending.
FetchStateAlwaysPending(q) ==
    [q EXCEPT !.fetchStatus = "fetching",
              !.failureCount = 0,
              !.retryWait = FALSE,
              !.retryCancelled = FALSE,
              !.status = "pending",
              !.error = ""]

\* The 'fetch' transition of a query: fetchStatus fetching, failure count
\* reset, and status pending only when there is no data yet.
FetchState(q) ==
    [q EXCEPT !.fetchStatus = "fetching",
              !.failureCount = 0,
              !.retryWait = FALSE,
              !.retryCancelled = FALSE,
              !.status = IF q.hasData THEN @ ELSE "pending",
              !.error = IF q.hasData THEN @ ELSE ""]

\* A cancel that forgets the running fetch: the retryer keeps awaiting it.
CancelForgotten(net, k) == net

\* retryer.cancel({silent: true}): the running fetch is abandoned without a
\* state change.  fetch(url) was called without the abort signal, so the HTTP
\* request itself goes on.
CancelSilently(net, k) ==
    IF LiveRequests(net, k) = {} THEN net
    ELSE LET r == CHOOSE x \in LiveRequests(net, k) : TRUE
         IN  Send(Remove(net, r), [r EXCEPT !.live = FALSE])

\* An always-refetching variant of QueryFetch: a caller never joins the
\* fetch in flight and the fetch in flight is not cancelled either.
QueryFetchNoDedup(qs, net, k, cancelRefetch) ==
    [queries |-> [qs EXCEPT ![k] = FetchState(qs[k])],
     network |-> Send(net, GetRequest(k)),
     effect  |-> "started"]

\* query.fetch(options, {cancelRefetch}) of the query cache, as useQuery,
\* refetch() and invalidateQueries() call it.
QueryFetch(qs, net, k, cancelRefetch) ==
    IF qs[k].fetchStatus # "idle" /\ ~(qs[k].hasData /\ cancelRefetch)
    THEN \* a fetch is running: continue its retries and share its promise
         [queries |-> [qs EXCEPT ![k].retryCancelled = FALSE],
          network |-> net,
          effect  |-> IF k = ListKey THEN "joinedList" ELSE "joined"]
    ELSE [queries |-> [qs EXCEPT ![k] = FetchState(qs[k])],
          network |-> Send(CancelSilently(net, k), GetRequest(k)),
          effect  |-> IF qs[k].fetchStatus # "idle" THEN "superseded"
                      ELSE "started"]

\* A removeObserver that leaves the retries of the running fetch going.
RemoveObserverKeepsRetrying(qs, id) == qs

\* query.removeObserver: the last observer leaves; a running fetch goes on
\* but will not be retried.
RemoveObserver(qs, id) ==
    IF id \in Ids /\ qs[DetailKey(id)].fetchStatus = "fetching"
    THEN [qs EXCEPT ![DetailKey(id)].retryCancelled = TRUE]
    ELSE qs

\* isStaleByTime: the clock is read when the observer reaches the query;
\* elapsed says whether staleTime (5 minutes) has passed since its data was
\* fetched.  Once passed it stays passed until new data arrives.
ReadClock(q, elapsed) ==
    IF q.hasData /\ elapsed THEN [q EXCEPT !.expired = TRUE] ELSE q

\* useQuery({queryKey: ["blog", selectedBlogId], enabled: !!selectedBlogId})
\* re-rendered with a new selectedBlogId: the observer leaves the old key and
\* fetches the new one when it is enabled and stale.
ObserveDetail(qs, net, old, new, elapsed) ==
    IF old = new \/ ~Enabled(new)
    THEN [queries |-> IF old = new THEN qs ELSE RemoveObserver(qs, old),
          network |-> net,
          effect  |-> "none"]
    ELSE LET left == RemoveObserver(qs, old)
             seen == [left EXCEPT ![DetailKey(new)] = ReadClock(@, elapsed)]
         IN  IF IsStale(seen[DetailKey(new)])
             THEN QueryFetch(seen, net, DetailKey(new), FALSE)
             ELSE [queries |-> seen, network |-> net, effect |-> "none"]

\* The 'success' transition.
SetSuccess(q, body) ==
    [q EXCEPT !.status = "success",
              !.fetchStatus = "idle",
              !.hasData = TRUE,
              !.data = body,
              !.error = "",
              !.failureCount = 0,
              !.retryWait = FALSE,
              !.retryCancelled = FALSE,
              !.isInvalidated = FALSE,
              !.expired = FALSE]

\* The 'error' transition: the data already loaded is kept.
SetError(q, message) ==
    [q EXCEPT !.status = "error",
              !.fetchStatus = "idle",
              !.error = message,
              !.failureCount = 0,
              !.retryWait = FALSE,
              !.retryCancelled = FALSE]

\* A 'failed' transition that does not count the failure.
SetFailedUncounted(q) == [q EXCEPT !.retryWait = TRUE]

\* The 'failed' transition: the attempt failed and a retry is scheduled.
SetFailed(q) ==
    [q EXCEPT !.failureCount = @ + 1, !.retryWait = TRUE]

\* A retryer configured with retry: false.
ShouldRetryNever(q) == FALSE

\* The retryer's decision when an attempt fails.
ShouldRetry(q) == ~q.retryCancelled /\ q.failureCount < retry

TypeOK ==
    /\ mounted \in BOOLEAN
    /\ alertOpen \in BOOLEAN
    /\ mutation.status \in {"idle", "pending", "success", "error"}
    /\ lastOp \in Noted \cup {"none"}
    /\ selectedBlogId \in Ids \cup {null}
    /\ isCreating \in BOOLEAN
    /\ draft \in SampleDrafts
    /\ DOMAIN queries = Keys
    /\ serverBlogs \subseteq Ids
    /\ creates \in 0 .. MaxCreates

Init ==
    /\ mounted = FALSE
    /\ selectedBlogId = null
    /\ isCreating = FALSE
    /\ draft = defaultValues
    /\ queries = [k \in Keys |-> InitialQueryState]
    /\ network = EmptyBag
    /\ serverBlogs \in InitialCollections
    /\ creates = 0
    /\ mutation = [status |-> "idle", data |-> {}]
    /\ alertOpen = FALSE
    /\ lastOp = "none"

\* ------------------------------------------------------------ UI handlers
\* <QueryClientProvider><BlogApp/>: the first render.  The list observer
\* subscribes and fetches; the detail observer is disabled (null).
Mount ==
    /\ ~mounted
    /\ mounted' = TRUE
    /\ LET f == QueryFetch(queries, network, ListKey, FALSE)
       IN  /\ queries' = f.queries
           /\ network' = f.network
           /\ lastOp' = Note(f.effect)
    /\ UNCHANGED <<selectedBlogId, isCreating, draft, serverBlogs, creates, mutation, alertOpen>>

\* handleCardClick(id), from the card of a blog of the rendered list.
handleCardClick(id, elapsed) ==
    /\ mounted
    /\ ~alertOpen
    /\ queries[ListKey].hasData
    /\ id \in queries[ListKey].data
    /\ isCreating' = FALSE
    /\ selectedBlogId' = id
    /\ draft' = defaultValues
    /\ LET f == ObserveDetail(queries, network, selectedBlogId, id, elapsed)
       IN  /\ WithinBound(f.queries, f.network)
           /\ queries' = f.queries
           /\ network' = f.network
           /\ lastOp' = Note(f.effect)
    /\ UNCHANGED <<mounted, serverBlogs, creates, mutation, alertOpen>>

\* resetView: the header logo, BlogDetail's onBack, CreateBlogForm's onCancel.
resetView ==
    /\ mounted
    /\ ~alertOpen
    /\ isCreating' = FALSE
    /\ selectedBlogId' = null
    /\ draft' = defaultValues
    /\ LET f == ObserveDetail(queries, network, selectedBlogId, null, FALSE)
       IN  /\ queries' = f.queries
           /\ network' = f.network
           /\ lastOp' = Note(f.effect)
    /\ UNCHANGED <<mounted, serverBlogs, creates, mutation, alertOpen>>

\* The "New Post" button: setIsCreating(true); setSelectedBlogId(null).
NewPost ==
    /\ mounted
    /\ ~alertOpen
    /\ isCreating' = TRUE
    /\ selectedBlogId' = null
    /\ LET f == ObserveDetail(queries, network, selectedBlogId, null, FALSE)
       IN  /\ queries' = f.queries
           /\ network' = f.network
           /\ lastOp' = Note(f.effect)
    /\ UNCHANGED <<mounted, draft, serverBlogs, creates, mutation, alertOpen>>

\* The "Refresh list" button: refetch(), which cancels a running refetch.
RefreshList ==
    /\ mounted
    /\ ~alertOpen
    /\ LET f == QueryFetch(queries, network, ListKey, TRUE)
       IN  /\ WithinBound(f.queries, f.network)
           /\ queries' = f.queries
           /\ network' = f.network
           /\ lastOp' = Note(f.effect)
    /\ UNCHANGED <<mounted, selectedBlogId, isCreating, draft, serverBlogs,
                   creates, mutation, alertOpen>>

\* The user types into the form.
EditDraft(d) ==
    /\ mounted
    /\ ~alertOpen
    /\ isCreating
    /\ d # draft
    /\ draft' = d
    /\ lastOp' = Note("none")
    /\ UNCHANGED <<mounted, selectedBlogId, isCreating, queries, network,
                   serverBlogs, creates, mutation, alertOpen>>

\* createMutation.mutate(data): the mutation observer turns to the new
\* mutation (an earlier one still running keeps its callbacks but no longer
\* reports to the observer) and createBlog sends the POST.
Mutate(net, data) ==
    LET Detach(r) == IF r.method = "POST" THEN [r EXCEPT !.live = FALSE] ELSE r
        detached == [x \in {Detach(r) : r \in Requests(net)} |->
                        Copies(net, {r \in Requests(net) : Detach(r) = x})]
    IN  Send(detached, PostRequest(data))

\* A handleSubmit that leaves the fields as they were submitted.
FormKept(d) == d

\* form.reset(): the fields go back to defaultValues.
reset(d) == defaultValues

\* form.handleSubmit(handleSubmit): the resolver validates; a valid draft is
\* handed to onSubmit = handleCreateSubmit -> createMutation.mutate(data),
\* which sends the POST, and then form.reset() runs.  An invalid draft only
\* shows its field messages.
SubmitDraft ==
    /\ mounted
    /\ ~alertOpen
    /\ isCreating
    /\ IF formSchema(draft)
       THEN /\ creates < MaxCreates
            /\ WithinBound(queries, Mutate(network, draft))
            /\ creates' = creates + 1
            /\ network' = Mutate(network, draft)
            /\ mutation' = [status |-> "pending", data |-> {}]
            /\ draft' = reset(draft)
            /\ lastOp' = Note("none")
       ELSE /\ UNCHANGED <<creates, network, mutation, draft>>
            /\ lastOp' = Note("blocked")
    /\ UNCHANGED <<mounted, selectedBlogId, isCreating, queries, serverBlogs,
                   alertOpen>>

\* ------------------------------------------------------------- the server
\* GET /blogs handled: the response body is the collection as it is now.
ServerHandlesGetBlogs(r) ==
    /\ r \in Outstanding(network, ListKey)
    /\ ~r.processed
    /\ network' = Send(Remove(network, r),
                       [r EXCEPT !.processed = TRUE, !.body = serverBlogs])
    /\ lastOp' = Note("none")
    /\ UNCHANGED <<mounted, selectedBlogId, isCreating, draft, queries,
                   serverBlogs, creates, mutation, alertOpen>>

\* The identifier the server assigns to a created blog.
NextId(blogs) == (CHOOSE m \in blogs : \A x \in blogs : x <= m) + 1

\* POST /blogs handled: the blog is stored under a new identifier.
ServerHandlesPost(r) ==
    /\ r \in Requests(network)
    /\ r.method = "POST"
    /\ ~r.processed
    /\ serverBlogs' = serverBlogs \cup {NextId(serverBlogs)}
    /\ network' = Send(Remove(network, r),
                       [r EXCEPT !.processed = TRUE,
                                 !.body = {NextId(serverBlogs)}])
    /\ lastOp' = Note("none")
    /\ UNCHANGED <<mounted, selectedBlogId, isCreating, draft, queries,
                   creates, mutation, alertOpen>>

\* ------------------------------------------------------ response callbacks
\* A query that applies the outcome of a cancelled fetch as well.
OnFetchSuccessAlways(q, r) == SetSuccess(q, r.body)

\* What the query does with the outcome of an attempt that succeeded.
OnFetchSuccess(q, r) ==
    IF r.live THEN SetSuccess(q, r.body) ELSE q

\* What the query does with the outcome of an attempt that failed: retry
\* (up to `retry` times, while an observer is left) or report the error.
OnFetchFailure(q, r) ==
    IF ~r.live THEN q
    ELSE IF ShouldRetry(q) THEN SetFailed(q)
    ELSE SetError(q, FetchErrorMessage(r.key))

\* fetchBlogs resolves: res.ok, res.json().
fetchBlogsResolved(r) ==
    /\ ~alertOpen
    /\ r \in Outstanding(network, ListKey)
    /\ r.processed
    /\ network' = Remove(network, r)
    /\ queries' = [queries EXCEPT ![ListKey] = OnFetchSuccess(@, r)]
    /\ lastOp' = Note(IF r.live THEN "applied" ELSE "dropped")
    /\ UNCHANGED <<mounted, selectedBlogId, isCreating, draft, serverBlogs,
                   creates, mutation, alertOpen>>

\* A result handed to whatever is selected when it arrives.
ResultKeySelected(r, selected) ==
    IF selected # null THEN DetailKey(selected) ELSE r.key

\* The query that receives the outcome of a request: the one of the
\* queryKey the request was made for, whatever is selected by now.
ResultKey(r, selected) == r.key

\* fetchBlogById(id) resolves with the blog of that id.  A blog never changes
\* on the server, so handling and answering are one step.
fetchBlogByIdResolved(r) ==
    /\ ~alertOpen
    /\ r \in Requests(network)
    /\ r.method = "GET"
    /\ r.key # ListKey
    /\ r.key.id \in serverBlogs
    /\ network' = Remove(network, r)
    /\ queries' = [queries EXCEPT
                     ![ResultKey(r, selectedBlogId)] =
                         OnFetchSuccess(@, [r EXCEPT !.body = {r.key.id}])]
    /\ lastOp' = Note(IF ~r.live THEN "dropped"
                       ELSE IF r.key.id # selectedBlogId THEN "late"
                       ELSE "applied")
    /\ UNCHANGED <<mounted, selectedBlogId, isCreating, draft, serverBlogs,
                   creates, mutation, alertOpen>>

\* fetchBlogs / fetchBlogById rejects: fetch() failed (transport) or
\* !res.ok (throw new Error(...)).
fetchRejected(r) ==
    /\ ~alertOpen
    /\ r \in Requests(network)
    /\ r.method = "GET"
    /\ network' = Remove(network, r)
    /\ queries' = [queries EXCEPT
                     ![ResultKey(r, selectedBlogId)] = OnFetchFailure(@, r)]
    /\ lastOp' = Note(IF ~r.live THEN "dropped"
                       ELSE IF r.key # ListKey /\ r.key.id # selectedBlogId
                            THEN "late"
                       ELSE "failed")
    /\ UNCHANGED <<mounted, selectedBlogId, isCreating, draft, serverBlogs,
                   creates, mutation, alertOpen>>

\* The retry delay of a failed attempt is over: the next attempt is sent,
\* unless the last observer left in the meantime (cancelRetry), and then the
\* error is reported.
RetryTimer(k) ==
    /\ ~alertOpen
    /\ queries[k].fetchStatus = "fetching"
    /\ queries[k].retryWait
    /\ IF queries[k].retryCancelled
       THEN /\ queries' = [queries EXCEPT ![k] = SetError(@, FetchErrorMessage(k))]
            /\ network' = network
            /\ lastOp' = Note("error")
       ELSE /\ queries' = [queries EXCEPT ![k].retryWait = FALSE]
            /\ network' = Send(network, GetRequest(k))
            /\ lastOp' = Note("started")
    /\ UNCHANGED <<mounted, selectedBlogId, isCreating, draft, serverBlogs,
                   creates, mutation, alertOpen>>

\* An invalidation without a key filter: every query is marked invalidated.
invalidateEveryQuery(qs, net) ==
    QueryFetch([k \in Keys |-> [qs[k] EXCEPT !.isInvalidated = TRUE]],
               net, ListKey, TRUE)

\* queryClient.invalidateQueries({queryKey: ["blogs"]}): every query whose key
\* starts with "blogs" is marked invalidated, and the active ones are
\* refetched, cancelling a refetch in flight.
invalidateQueries(qs, net) ==
    QueryFetch([qs EXCEPT ![ListKey].isInvalidated = TRUE], net, ListKey, TRUE)

\* An onSuccess that brings the create panel up again for another post.
onSuccessOpensPanel(qs, net) ==
    LET f == invalidateQueries(qs, net)
    IN  [queries |-> f.queries, network |-> f.network, effect |-> f.effect,
         isCreating |-> TRUE, selectedBlogId |-> selectedBlogId]

\* An onSuccess that only refreshes the list and leaves the panel as it is.
onSuccessKeepsPanel(qs, net) ==
    LET f == invalidateQueries(qs, net)
    IN  [queries |-> f.queries, network |-> f.network, effect |-> f.effect,
         isCreating |-> isCreating, selectedBlogId |-> selectedBlogId]

\* An onSuccess that also goes back to the list: setSelectedBlogId(null).
onSuccessShowsList(qs, net) ==
    LET f == invalidateQueries(qs, net)
    IN  [queries |-> f.queries, network |-> f.network, effect |-> f.effect,
         isCreating |-> FALSE, selectedBlogId |-> null]

\* createMutation.onSuccess: invalidateQueries(["blogs"]), then
\* setIsCreating(false), which unmounts the form.  setSelectedBlogId is not
\* called.
onSuccess(qs, net) ==
    LET f == invalidateQueries(qs, net)
    IN  [queries |-> f.queries, network |-> f.network, effect |-> f.effect,
         isCreating |-> FALSE, selectedBlogId |-> selectedBlogId]

\* An onError that refreshes the list as onSuccess does.
onErrorInvalidating(qs, net) ==
    LET f == invalidateQueries(qs, net)
    IN  [queries |-> f.queries, network |-> f.network, alert |-> TRUE]

\* createMutation.onError: console.error and alert; nothing else changes.
onError(qs, net) ==
    [queries |-> qs, network |-> net, alert |-> TRUE]

\* createBlog resolves (res.ok): the mutation succeeds with the created blog
\* and createMutation.onSuccess runs.
createResolved(r) ==
    /\ ~alertOpen
    /\ r \in Requests(network)
    /\ r.method = "POST"
    /\ r.processed
    /\ LET f == onSuccess(queries, Remove(network, r))
       IN  /\ queries' = f.queries
           /\ network' = f.network
           /\ isCreating' = f.isCreating
           /\ selectedBlogId' = f.selectedBlogId
           /\ lastOp' = Note(f.effect)
           \* CreateBlogForm is rendered only while isCreating: closing the
           \* panel unmounts the form and its useForm values with it.
           /\ draft' = IF f.isCreating THEN draft ELSE defaultValues
    /\ mutation' = IF r.live THEN [status |-> "success", data |-> r.body]
                   ELSE mutation
    /\ UNCHANGED <<mounted, serverBlogs, creates, alertOpen>>

\* createBlog rejects (transport failure or !res.ok): the mutation fails and
\* createMutation.onError runs.  alert() is modal: no handler, callback or
\* timer of the page runs until the user closes it.
createRejected(r) ==
    /\ ~alertOpen
    /\ r \in Requests(network)
    /\ r.method = "POST"
    /\ LET f == onError(queries, Remove(network, r))
       IN  /\ queries' = f.queries
           /\ network' = f.network
           /\ alertOpen' = f.alert
    /\ mutation' = IF r.live THEN [status |-> "error", data |-> {}]
                   ELSE mutation
    /\ lastOp' = Note("createFailed")
    /\ UNCHANGED <<mounted, selectedBlogId, isCreating, draft, serverBlogs,
                   creates>>

\* The user closes the alert.
DismissAlert ==
    /\ alertOpen
    /\ alertOpen' = FALSE
    /\ lastOp' = Note("none")
    /\ UNCHANGED <<mounted, selectedBlogId, isCreating, draft, queries, network,
                   serverBlogs, creates, mutation>>

\* ------------------------------------------------------------ cache timers
\* gcTime has passed since the last observer left a query that is not
\* fetching: the cache removes it, and the key starts afresh.
GarbageCollect(k) ==
    /\ ~alertOpen
    /\ k # ListKey
    /\ k.id # selectedBlogId
    /\ queries[k].fetchStatus = "idle"
    /\ queries[k] # InitialQueryState
    /\ queries' = [queries EXCEPT ![k] = InitialQueryState]
    /\ lastOp' = Note("none")
    /\ UNCHANGED <<mounted, selectedBlogId, isCreating, draft, network,
                   serverBlogs, creates, mutation, alertOpen>>

\* --------------------------------------------------------- specification
Next ==
    \/ Mount
    \/ \E id \in Ids, elapsed \in BOOLEAN : handleCardClick(id, elapsed)
    \/ resetView
    \/ NewPost
    \/ RefreshList
    \/ \E d \in SampleDrafts : EditDraft(d)
    \/ SubmitDraft
    \/ \E r \in Requests(network) : ServerHandlesGetBlogs(r)
    \/ \E r \in Requests(network) : ServerHandlesPost(r)
    \/ \E r \in Requests(network) : fetchBlogsResolved(r)
    \/ \E r \in Requests(network) : fetchBlogByIdResolved(r)
    \/ \E r \in Requests(network) : fetchRejected(r)
    \/ \E k \in Keys : RetryTimer(k)
    \/ \E r \in Requests(network) : createResolved(r)
    \/ \E r \in Requests(network) : createRejected(r)
    \/ DismissAlert
    \/ \E k \in Keys : GarbageCollect(k)

Spec == Init /\ [][Next]_vars

\* ------------------------------------------------------------- scheduling
\* The request of key k that the query awaits is answered: handled by the
\* server or delivered to the page, as a success or as a failure.
Answered(k) ==
    \E r \in LiveRequests(network, k) :
        \/ ServerHandlesGetBlogs(r)
        \/ fetchBlogsResolved(r)
        \/ fetchBlogByIdResolved(r)
        \/ fetchRejected(r)

\* ------------------------------------------------ the create form alone
\* The longest categories text typed.
MaxCategoryLen == 4

\* The characters a categories text is typed with.
CategoryChars == {"T", "L", ",", " "}

Texts(chars, n) == UNION {[1 .. k -> chars] : k \in 0 .. n}

\* What the user may type into the form: any categories text with the other
\* fields valid, and any mix of valid and invalid other fields.
FormDrafts ==
    {[ValidDraft EXCEPT !.category = c] :
        c \in Texts(CategoryChars, MaxCategoryLen)}
    \cup
    [title       : {<<>>, <<"H">>, ValidDraft.title},
     coverImage  : {<<>>, <<"h", "x">>, ValidDraft.coverImage},
     category    : {ValidDraft.category},
     description : {<<>>, SubSeq(ValidDraft.description, 1, 9),
                    ValidDraft.description}]

\* The list is loaded and the user has pressed New Post.
FormInit ==
    /\ mounted = TRUE
    /\ selectedBlogId = null
    /\ isCreating = TRUE
    /\ draft = defaultValues
    /\ \E blogs \in InitialCollections :
          /\ serverBlogs = blogs
          /\ queries = [k \in Keys |->
                          IF k = ListKey
                          THEN SetSuccess(InitialQueryState, blogs)
                          ELSE InitialQueryState]
    /\ network = EmptyBag
    /\ creates = 0
    /\ mutation = [status |-> "idle", data |-> {}]
    /\ alertOpen = FALSE
    /\ lastOp = "none"

\* The user fills in the empty form and submits it, any number of times.
FormNext ==
    \/ \E d \in FormDrafts : (draft = defaultValues /\ creates = 0 /\ EditDraft(d))
    \/ SubmitDraft

FormSpec == FormInit /\ [][FormNext]_vars

\* ------------------------------------------------- the useBlog hook alone
\* The function object blogApi.getBlogById, as a value held in a query's
\* data: it is no blog of any identifier.
getBlogById == -2

\* query.fetch for a query of useBlog: a caller joins a fetch that is
\* running; otherwise queryFn is run.  queryFn is () => blogApi.getBlogById:
\* it returns the function without calling it, so no request is sent.
useBlogFetch(qs, k) ==
    IF qs[k].fetchStatus # "idle"
    THEN [queries |-> [qs EXCEPT ![k].retryCancelled = FALSE],
          effect  |-> "joined"]
    ELSE [queries |-> [qs EXCEPT ![k] = FetchState(qs[k])],
          effect  |-> "started"]

\* useBlog(id) of a component rendered for the first time or with another
\* id: useQuery({queryKey: ["blog", id], queryFn, enabled: !!id}).
useBlog(qs, old, id, elapsed) ==
    IF old = id \/ ~Enabled(id)
    THEN [queries |-> IF old = id THEN qs ELSE RemoveObserver(qs, old),
          effect  |-> "none"]
    ELSE LET left == RemoveObserver(qs, old)
             seen == [left EXCEPT ![DetailKey(id)] = ReadClock(@, elapsed)]
         IN  IF IsStale(seen[DetailKey(id)])
             THEN useBlogFetch(seen, DetailKey(id))
             ELSE [queries |-> seen, effect |-> "none"]

\* A component that calls useBlog(id) is rendered with id.
useBlogRendered(id, elapsed) ==
    /\ selectedBlogId # id
    /\ mounted' = TRUE
    /\ selectedBlogId' = id
    /\ LET f == useBlog(queries, selectedBlogId, id, elapsed)
       IN  /\ queries' = f.queries
           /\ lastOp' = Note(f.effect)
    /\ UNCHANGED <<isCreating, draft, network, serverBlogs, creates, mutation,
                   alertOpen>>

\* The promise of queryFn resolves, with what queryFn returned.
queryFnResolved(k) ==
    /\ k # ListKey
    /\ queries[k].fetchStatus = "fetching"
    /\ queries' = [queries EXCEPT ![k] = SetSuccess(@, {getBlogById})]
    /\ lastOp' = Note(IF k.id # selectedBlogId THEN "late" ELSE "applied")
    /\ UNCHANGED <<mounted, selectedBlogId, isCreating, draft, network,
                   serverBlogs, creates, mutation, alertOpen>>

\* The component is unmounted: its observer leaves the query.
useBlogUnmounted ==
    /\ mounted
    /\ mounted' = FALSE
    /\ selectedBlogId' = null
    /\ queries' = RemoveObserver(queries, selectedBlogId)
    /\ lastOp' = Note("none")
    /\ UNCHANGED <<isCreating, draft, network, serverBlogs, creates, mutation,
                   alertOpen>>

\* The component calls the refetch() that useBlog returns with the query
\* result: the query of the id it was rendered with (enabled or not) is
\* fetched; a refetch that is running on loaded data is cancelled and started
\* again, a first fetch that is running is joined.
useBlogRefetch ==
    /\ mounted
    /\ selectedBlogId \in Ids
    /\ LET k == DetailKey(selectedBlogId)
           f == IF queries[k].hasData
                THEN [queries |-> [queries EXCEPT ![k] = FetchState(@)],
                      effect  |-> "started"]
                ELSE useBlogFetch(queries, k)
       IN  /\ queries' = f.queries
           /\ lastOp' = Note(f.effect)
    /\ UNCHANGED <<mounted, selectedBlogId, isCreating, draft, network,
                   serverBlogs, creates, mutation, alertOpen>>

HookNext ==
    \/ \E id \in Ids, elapsed \in BOOLEAN : useBlogRendered(id, elapsed)
    \/ useBlogRefetch
    \/ \E k \in Keys : queryFnResolved(k)
    \/ useBlogUnmounted
    \/ \E k \in Keys : GarbageCollect(k)

HookSpec == Init /\ [][HookNext]_vars

\* ==================================================================
\* Properties
\* ==================================================================

\* ------------------------------------------------------------------ C1
\* C1 as stated: at any moment at most one GET of the collection is
\* outstanding on the network.
C1_AtMostOneListRequestOutstanding ==
    OutstandingCount(network, ListKey) <= 1

\* C1, amended: for the collection key at most one request is awaited at a
\* time.  A caller that arrives while a request is in flight and no list has
\* been loaded yet shares that request; a refresh or an invalidation that
\* arrives while a request is in flight and a list is already loaded cancels
\* the fetch and issues a new GET, and the cancelled request stays
\* outstanding with its response ignored.
C1_AtMostOneListRequestAwaited ==
    /\ Copies(network, LiveRequests(network, ListKey)) <= 1
    /\ LiveRequests(network, ListKey) # {}
          => queries[ListKey].fetchStatus = "fetching"
    /\ Orphans(network, ListKey) # {} => queries[ListKey].hasData

\* A refresh has superseded a request in flight: the cancelled GET and the
\* new one are outstanding together.
C1_Witness ==
    /\ LiveRequests(network, ListKey) # {}
    /\ Orphans(network, ListKey) # {}

\* ------------------------------------------------------------------ C2
\* C2: for every identifier, at most one GET of that blog is outstanding at
\* any time, also when the blog is selected again while its request is in
\* flight; the second caller shares the request (and the single cache entry
\* of the key) instead of issuing another.
C2_AtMostOneDetailRequest ==
    \A id \in Ids :
        /\ OutstandingCount(network, DetailKey(id)) <= 1
        /\ Orphans(network, DetailKey(id)) = {}

\* A blog was selected again while its request was in flight, and the
\* request is still outstanding.
C2_Witness ==
    /\ lastOp = "joined"
    /\ Enabled(selectedBlogId)
    /\ OutstandingCount(network, DetailKey(selectedBlogId)) = 1

\* ------------------------------------------------------------------ C3
\* C3: a GET of a blog is only ever sent for the identifier that is selected
\* when it is sent, and that identifier is a valid one; so with nothing
\* selected no detail request is sent, by a click, by a retry or otherwise.
C3_DetailRequestOnlyForSelected ==
    [][\A id \in Ids :
          OutstandingCount(network', DetailKey(id))
              > OutstandingCount(network, DetailKey(id))
          => (selectedBlogId' = id /\ Enabled(id))]_vars

\* Nothing is selected (the create panel was opened) while a retry of a
\* detail fetch is due.
C3_Witness ==
    /\ selectedBlogId = null
    /\ isCreating
    /\ \E id \in Ids : /\ queries[DetailKey(id)].fetchStatus = "fetching"
                       /\ queries[DetailKey(id)].retryWait

\* ------------------------------------------------------------------ C4
\* C4 as stated: once a create has succeeded, a collection state that has
\* reached success (no fetch running) contains the created blog.
C4_SuccessAfterCreateShowsCreatedBlog ==
    (queries[ListKey].status = "success" /\ queries[ListKey].fetchStatus = "idle")
        => mutation.data \subseteq queries[ListKey].data

\* ------------------------------------------------------------------ C5
\* How many POSTs are outstanding.
PostCount(net) == Copies(net, {r \in Requests(net) : r.method = "POST"})

\* The GETs outstanding, as a bag.
Gets(net) ==
    [r \in {x \in Requests(net) : x.method = "GET"} |-> CopiesIn(r, net)]

\* A step in which a POST fails.
CreateFailedStep ==
    /\ lastOp' = "createFailed"
    /\ PostCount(network') < PostCount(network)

\* C5: a failed create changes no query state and no cached data, invalidates
\* nothing, sends no request, leaves the view as it is, and is reported to
\* the user (the alert).
C5_FailedCreateLeavesCacheUntouched ==
    [][CreateFailedStep =>
          /\ queries' = queries
          /\ Gets(network') = Gets(network)
          /\ selectedBlogId' = selectedBlogId
          /\ isCreating' = isCreating
          /\ alertOpen']_vars

\* A create has failed, with a list loaded before: the alert is on screen.
C5_Witness ==
    /\ alertOpen
    /\ lastOp = "createFailed"
    /\ queries[ListKey].hasData

\* ------------------------------------------------------------------ C6
\* How many GETs of key k the query still awaits.
LiveCount(net, k) == Copies(net, LiveRequests(net, k))

\* A step in which an attempt that the query of key k awaits fails: the
\* awaited request is gone and the query has not succeeded.
FetchFailedStep(k) ==
    /\ LiveCount(network', k) < LiveCount(network, k)
    /\ ~(queries'[k].status = "success" /\ queries'[k].fetchStatus = "idle")

\* C6 as stated: when a fetch of a key fails the key goes to error and stops
\* fetching (nothing is retried).
C6_FailedFetchNotRetried ==
    [][\A k \in Keys :
          FetchFailedStep(k) =>
              /\ queries'[k].status = "error"
              /\ queries'[k].fetchStatus = "idle"]_vars

\* C6, amended: a failed attempt is retried automatically, up to 3 times
\* (the library's default; the QueryClient of the app does not set retry),
\* as long as the key is still observed.  The key goes to error only when the
\* 4th attempt fails, or when an attempt fails or a retry falls due after the
\* key's observer has left.  One invocation therefore causes at most 4
\* requests; and once the key has settled (error or success) no request is
\* awaited or scheduled for it, and a request is sent for it only by a new
\* invocation (selection, manual refresh, invalidation), which starts the
\* count again.
C6_FailedFetchRetriedUpToThreeTimes ==
    /\ [](\A k \in Keys :
            /\ queries[k].failureCount <= retry
            /\ queries[k].fetchStatus = "idle" =>
                  /\ LiveRequests(network, k) = {}
                  /\ ~queries[k].retryWait
            /\ queries[k].retryWait => LiveRequests(network, k) = {})
    /\ [][\A k \in Keys :
            /\ FetchFailedStep(k) =>
                  IF ~queries[k].retryCancelled /\ queries[k].failureCount < retry
                  THEN /\ queries'[k].fetchStatus = "fetching"
                       /\ queries'[k].retryWait
                       /\ queries'[k].failureCount = queries[k].failureCount + 1
                       /\ queries'[k].status = queries[k].status
                  ELSE /\ queries'[k].status = "error"
                       /\ queries'[k].fetchStatus = "idle"
            /\ (/\ queries[k].fetchStatus = "idle"
                /\ OutstandingCount(network', k) > OutstandingCount(network, k))
                  => /\ queries'[k].fetchStatus = "fetching"
                     /\ queries'[k].failureCount = 0
                     /\ LiveCount(network', k) = 1]_vars

\* Three attempts of one invocation have failed and the 4th is out.
C6_Witness ==
    \E k \in Keys :
        /\ queries[k].fetchStatus = "fetching"
        /\ queries[k].failureCount = retry
        /\ LiveRequests(network, k) # {}

\* ------------------------------------------------------------------ C7
\* C7 as stated: a failed response puts the key in error with a non-empty
\* message and leaves the data of every other key unchanged.
C7_FailedResponsePutsKeyInError ==
    [][\A k \in Keys :
          FetchFailedStep(k) =>
              /\ queries'[k].status = "error"
              /\ queries'[k].error # ""
              /\ \A j \in Keys \ {k} :
                    /\ queries'[j].hasData = queries[j].hasData
                    /\ queries'[j].data = queries[j].data]_vars

\* C7, amended: a failed response that ends the fetch (the retries are used
\* up, or the key is no longer observed) puts the key in error with a
\* non-empty message; an earlier failed response leaves the key fetching with
\* a retry scheduled.  Either way the entry of every other key is unchanged,
\* and so is the data loaded before for the key itself.  A key in error
\* always carries a non-empty message.
C7_FinalFailurePutsKeyInError ==
    /\ [](\A k \in Keys : queries[k].status = "error" => queries[k].error # "")
    /\ [][\A k \in Keys :
            FetchFailedStep(k) =>
                /\ \A j \in Keys \ {k} : queries'[j] = queries[j]
                /\ queries'[k].hasData = queries[k].hasData
                /\ queries'[k].data = queries[k].data
                /\ \/ /\ queries'[k].fetchStatus = "idle"
                      /\ queries'[k].status = "error"
                      /\ queries'[k].error = FetchErrorMessage(k)
                   \/ /\ queries'[k].fetchStatus = "fetching"
                      /\ queries'[k].retryWait]_vars

\* The fetch of a blog has failed for good while the list is loaded.
C7_Witness ==
    /\ queries[ListKey].status = "success"
    /\ queries[ListKey].data # {}
    /\ \E id \in Ids : /\ queries[DetailKey(id)].status = "error"
                       /\ queries[DetailKey(id)].fetchStatus = "idle"

\* ------------------------------------------------------------------ C8
\* The query state of a key as BlogApp reads it: isLoading (pending and
\* fetching), isError, data.
State(q) ==
    IF q.status = "pending"
    THEN IF q.fetchStatus = "fetching" THEN "loading" ELSE "idle"
    ELSE q.status

\* The cache drops the entry of key k in this step.
Discarded(k) ==
    queries[k] # InitialQueryState /\ queries'[k] = InitialQueryState

\* C8 as stated: a key is in one of idle, loading, success, error, and moves
\* only idle -> loading, loading -> success, loading -> error, and
\* success|error -> loading.  (Steps in which the cache drops an unobserved
\* entry are left aside.)
C8_TransitionsAsStated ==
    /\ [](\A k \in Keys :
            State(queries[k]) \in {"idle", "loading", "success", "error"})
    /\ [][\A k \in Keys :
            \/ State(queries'[k]) = State(queries[k])
            \/ Discarded(k)
            \/ <<State(queries[k]), State(queries'[k])>> \in
                  {<<"idle", "loading">>, <<"loading", "success">>,
                   <<"loading", "error">>, <<"success", "loading">>,
                   <<"error", "loading">>}]_vars

\* C8, amended: a key is in one of idle, loading, success, error, and moves
\* only idle -> loading, loading -> success, loading -> error, error ->
\* loading (a new request for a key without data), success -> error and
\* error -> success (the outcome of a refetch of a key that has data: during
\* the refetch the key keeps its state and never shows loading), and
\* success|error -> idle when the cache drops an unobserved entry.  A key
\* changes to success or error only as the outcome of a fetch that was
\* running, so never from idle directly.
C8_Transitions ==
    /\ [](\A k \in Keys :
            State(queries[k]) \in {"idle", "loading", "success", "error"})
    /\ [][\A k \in Keys :
            \/ State(queries'[k]) = State(queries[k])
            \/ /\ <<State(queries[k]), State(queries'[k])>> \in
                     {<<"idle", "loading">>, <<"loading", "success">>,
                      <<"loading", "error">>, <<"error", "loading">>,
                      <<"success", "error">>, <<"error", "success">>}
               /\ State(queries'[k]) \in {"success", "error"}
                     => queries[k].fetchStatus = "fetching"
               /\ State(queries[k]) \in {"success", "error"}
                     => (State(queries'[k]) = "loading" <=> ~queries[k].hasData)
            \/ /\ <<State(queries[k]), State(queries'[k])>> \in
                     {<<"success", "idle">>, <<"error", "idle">>}
               /\ Discarded(k)]_vars

\* The refetch of the loaded list has failed: the list went from success to
\* error and keeps its data.
C8_Witness ==
    /\ queries[ListKey].status = "error"
    /\ queries[ListKey].fetchStatus = "idle"
    /\ queries[ListKey].hasData

\* ------------------------------------------------------------------ C9
\* How many cancelled GETs of key k are outstanding.
OrphanCount(net, k) == Copies(net, Orphans(net, k))

\* C9: the response of an older request of a key that a newer request has
\* superseded changes nothing when it arrives, before or after the newer
\* one's; and the response of the newer request is what the key then holds.
C9_NewerResultSupersedes ==
    [][\A k \in Keys :
          /\ OrphanCount(network', k) < OrphanCount(network, k)
                => queries' = queries
          /\ (/\ LiveCount(network', k) < LiveCount(network, k)
              /\ ~FetchFailedStep(k))
                => \E r \in LiveRequests(network, k) :
                      queries'[k].data =
                          IF k = ListKey THEN r.body ELSE {k.id}]_vars

\* The older response arrived last and was dropped: both requests are
\* answered and the list holds a result.
C9_Witness ==
    /\ lastOp = "dropped"
    /\ Outstanding(network, ListKey) = {}
    /\ queries[ListKey].status = "success"
    /\ queries[ListKey].fetchStatus = "idle"

\* ----------------------------------------------------------------- C10
\* A step in which the request for blog id is answered while id is not the
\* selected blog.
LateDetailResult(id) ==
    /\ selectedBlogId # id
    /\ OutstandingCount(network', DetailKey(id))
          < OutstandingCount(network, DetailKey(id))

\* C10 as stated: a result arriving for a blog that is no longer selected is
\* discarded, so the state of its key does not change.
C10_LateResultDiscarded ==
    [][\A id \in Ids :
          LateDetailResult(id) =>
              queries'[DetailKey(id)] = queries[DetailKey(id)]]_vars

\* C10, amended: a result arriving for a blog that is no longer selected is
\* not discarded: it is stored in the cache under the key it was requested
\* for (success with that blog, or error), where a later selection of the
\* blog finds it.  It does not touch what is displayed: the selection, the
\* create panel, the draft, and the entry of every other key are unchanged.
C10_LateResultStoredUnderItsOwnKey ==
    [][\A id \in Ids :
          LateDetailResult(id) =>
              /\ selectedBlogId' = selectedBlogId
              /\ isCreating' = isCreating
              /\ draft' = draft
              /\ \A k \in Keys \ {DetailKey(id)} : queries'[k] = queries[k]
              /\ queries'[DetailKey(id)].fetchStatus = "idle"
              /\ \/ /\ queries'[DetailKey(id)].status = "success"
                    /\ queries'[DetailKey(id)].data = {id}
                 \/ queries'[DetailKey(id)].status = "error"]_vars

\* The result of a blog arrived after the user had moved on to another blog,
\* and sits in the cache.
C10_Witness ==
    /\ lastOp = "late"
    /\ selectedBlogId # null
    /\ \E id \in Ids \ {selectedBlogId} :
          /\ queries[DetailKey(id)].status = "success"
          /\ queries[DetailKey(id)].data = {id}

\* ----------------------------------------------------------------- C11
\* A step in which a POST succeeds.
CreateSucceededStep ==
    /\ PostCount(network') < PostCount(network)
    /\ lastOp' # "createFailed"

\* C11: when a POST succeeds, whatever the form holds at that moment (the
\* fields were already emptied at submit; the user may have typed again
\* since) is cleared and the create panel is closed.
C11_SuccessfulCreateClearsDraft ==
    [][CreateSucceededStep =>
          /\ draft' = defaultValues
          /\ ~isCreating']_vars

\* A create has succeeded: the panel is closed and the draft is empty.
C11_Witness ==
    /\ mutation.status = "success"
    /\ PostCount(network) = 0
    /\ ~isCreating
    /\ draft = defaultValues

\* ----------------------------------------------------------------- C12
\* C12: a submit that the validation stops changes nothing: no request is
\* sent and the create mutation is not invoked; and a draft that breaks a
\* rule of the form (title of at least 2 characters, cover image a URL,
\* categories of at least 2 characters, description of at least 10) is
\* never what a create is invoked with.
C12_InvalidDraftBlocked ==
    [][/\ lastOp' = "blocked" =>
             UNCHANGED <<network, creates, mutation, queries, draft>>
       /\ (\/ Len(draft.title) < 2
           \/ ~IsUrl(draft.coverImage)
           \/ Len(draft.category) < 2
           \/ Len(draft.description) < 10)
             => /\ creates' = creates
                /\ PostCount(network') <= PostCount(network)
                /\ mutation' = mutation]_vars

\* A draft with an empty title was submitted and stopped; nothing is on the
\* network.
C12_Witness ==
    /\ lastOp = "blocked"
    /\ draft.title = <<>>
    /\ draft.description = ValidDraft.description
    /\ network = EmptyBag
    /\ mutation.status = "idle"

\* ----------------------------------------------------------------- C13
\* Where the commas of text t are.
Commas(t) == {i \in 1 .. Len(t) : t[i] = ","}

\* The i-th comma-separated segment of t, counted from 1: what lies between
\* the (i-1)-th comma and the i-th (the ends of t standing in at both ends).
Segment(t, i) ==
    LET Before == {p \in Commas(t) : Cardinality({q \in Commas(t) : q <= p}) = i - 1}
        After  == {p \in Commas(t) : Cardinality({q \in Commas(t) : q <= p}) = i}
        from   == IF Before = {} THEN 1 ELSE (CHOOSE p \in Before : TRUE) + 1
        to     == IF After = {} THEN Len(t) ELSE (CHOOSE p \in After : TRUE) - 1
    IN  SubSeq(t, from, to)

\* Text t without the whitespace at its two ends.
Stripped(t) ==
    LET Solid == {i \in 1 .. Len(t) : t[i] \notin Whitespace}
    IN  IF Solid = {} THEN <<>>
        ELSE SubSeq(t, CHOOSE i \in Solid : \A j \in Solid : i <= j,
                       CHOOSE i \in Solid : \A j \in Solid : j <= i)

\* C13: the POST of a create carries, as category, the list of the
\* comma-separated segments of the draft's categories text, each without
\* the whitespace around it, in their order; the other fields go as typed.
C13_CategoriesSentAsTrimmedList ==
    [][creates' = creates + 1 =>
          \E r \in Requests(network') :
              /\ r.method = "POST"
              /\ CopiesIn(r, network') > CopiesIn(r, network)
              /\ Len(r.sent.category) = Cardinality(Commas(draft.category)) + 1
              /\ \A i \in 1 .. Len(r.sent.category) :
                    r.sent.category[i] = Stripped(Segment(draft.category, i))
              /\ r.sent.title = draft.title]_vars

\* "T, L" was typed into the categories field: the POST carries the list
\* of "T" and "L".
C13_Witness ==
    \E r \in Requests(network) :
        /\ r.method = "POST"
        /\ r.sent.category = << <<"T">>, <<"L">> >>

\* ------------------------------------------------------- what is rendered
\* isLoading of a useQuery result: no data yet and a fetch running.
isLoading(q) == q.status = "pending" /\ q.fetchStatus = "fetching"

\* The message the list panel shows: {isErrorBlogs && errorBlogs.message}.
ListMessage ==
    IF queries[ListKey].status = "error" THEN queries[ListKey].error ELSE ""

\* The query the detail useQuery observes: ["blog", selectedBlogId], which
\* for nothing selected is a disabled query without data.
DetailQuery ==
    IF selectedBlogId \in Ids THEN queries[DetailKey(selectedBlogId)]
    ELSE InitialQueryState

\* What the right panel renders: the form, the loading indicator, the
\* article, "Post not found.", or the invitation to select an article.
DetailPanel ==
    IF isCreating THEN "form"
    ELSE IF Enabled(selectedBlogId)
         THEN IF isLoading(DetailQuery) THEN "loading"
              ELSE IF DetailQuery.hasData THEN "article"
              ELSE "notFound"
    ELSE "empty"

\* The message the right panel shows about the selected article's query: the
\* detail useQuery's error is not read, and the only text is the one for an
\* article that could not be shown.
DetailMessage == IF DetailPanel = "notFound" THEN "Post not found." ELSE ""

\* ----------------------------------------------------------------- C14
\* C14 as stated: a fetch that has failed is shown to the user by a message
\* with its query: the list's when the list key is in error, the selected
\* article's when its key is in error and the article panel is on screen.
C14_FailureShownWithItsQuery ==
    /\ queries[ListKey].status = "error" => ListMessage # ""
    /\ (/\ ~isCreating
        /\ Enabled(selectedBlogId)
        /\ DetailQuery.status = "error"
        /\ DetailQuery.fetchStatus = "idle")
          => DetailMessage # ""

\* ----------------------------------------------------------------- C15
\* C15: a successful create invalidates and refetches the list key only: the
\* entry of every detail key (state, data, freshness) is unchanged by the
\* step, and no detail request is sent.
C15_CreateInvalidatesOnlyTheList ==
    [][CreateSucceededStep =>
          /\ queries'[ListKey].isInvalidated
          /\ queries'[ListKey].fetchStatus = "fetching"
          /\ \A id \in Ids :
                /\ queries'[DetailKey(id)] = queries[DetailKey(id)]
                /\ OutstandingCount(network', DetailKey(id))
                      = OutstandingCount(network, DetailKey(id))]_vars

\* A create has succeeded while an article was cached: the list is
\* invalidated and being refetched, the article's entry is fresh.
C15_Witness ==
    /\ mutation.status = "success"
    /\ queries[ListKey].isInvalidated
    /\ queries[ListKey].fetchStatus = "fetching"
    /\ \E id \in Ids : /\ queries[DetailKey(id)].status = "success"
                       /\ ~IsStale(queries[DetailKey(id)])

\* ----------------------------------------------------------------- C16
\* C16 as stated: while a query of useBlog(id) fetches, the request for blog
\* id is out; and once it has succeeded its data is the blog of id.
C16_useBlogGetsTheBlog ==
    \A id \in Ids :
        /\ queries[DetailKey(id)].fetchStatus = "fetching"
              => OutstandingCount(network, DetailKey(id)) = 1
        /\ queries[DetailKey(id)].status = "success"
              => queries[DetailKey(id)].data = {id}

\* ----------------------------------------------------------------- C17
\* How far the fetch of key k is from its end at the latest: 3 steps for
\* every attempt still allowed (the retry delay, the server handling the
\* request, the response), less the steps of the current attempt already
\* taken.
Remaining(k) ==
    3 * (retry - queries[k].failureCount)
        + (IF queries[k].retryWait THEN 2
           ELSE IF \E r \in LiveRequests(network, k) : r.processed THEN 0
           ELSE 1)

\* The same, after the step.
RemainingAfter(k) ==
    3 * (retry - queries'[k].failureCount)
        + (IF queries'[k].retryWait THEN 2
           ELSE IF \E r \in LiveRequests(network', k) : r.processed THEN 0
           ELSE 1)

\* C17: a key that is loading always has its next step waiting to happen (the
\* answer to its request, or the timer of its retry; while the failure alert
\* is open the page handles neither, until the alert is closed); every such
\* step ends the loading or brings it nearer to its end, of which it is never
\* more than 3 * retry + 1 steps away; and no selection, refresh or create
\* sets it back.  So when the server answers every request, loading ends.
C17_LoadingEnds ==
    /\ [](\A k \in Keys :
            isLoading(queries[k]) =>
                /\ Remaining(k) \in 0 .. (3 * retry + 1)
                /\ \/ ENABLED Answered(k)
                   \/ ENABLED RetryTimer(k)
                   \/ alertOpen /\ ENABLED DismissAlert)
    /\ [][\A k \in Keys :
            (isLoading(queries[k]) /\ isLoading(queries'[k])) =>
                /\ RemainingAfter(k) <= Remaining(k)
                /\ (Answered(k) \/ RetryTimer(k))
                      => RemainingAfter(k) < Remaining(k)]_vars

\* An article is loading, its observer has left, and its retry is due.
C17_Witness ==
    \E id \in Ids :
        /\ isLoading(queries[DetailKey(id)])
        /\ selectedBlogId # id
        /\ queries[DetailKey(id)].retryWait

\* ----------------------------------------------------------------- C18
\* C18: the create panel is never open while an article is selected.
C18_PanelOrArticle ==
    ~(isCreating /\ selectedBlogId # null)

\* A create completed after the user had gone on to an article: the article
\* stays selected and the panel closed.
C18_Witness ==
    /\ selectedBlogId # null
    /\ ~isCreating
    /\ mutation.status = "success"
    /\ PostCount(network) = 0

\* ----------------------------------------------------------------- C19
\* The article the right panel shows: <BlogDetail blog={selectedBlog}/>.
ShownArticle ==
    IF DetailPanel = "article" THEN DetailQuery.data ELSE {}

\* C19: what the cache holds under the key of a blog is that blog, and the
\* article shown is the one cached under the key of the selected blog: so
\* it is the selected blog, never another, in whatever order responses
\* arrive.
C19_ShownArticleIsTheSelected ==
    /\ \A id \in Ids :
          queries[DetailKey(id)].hasData => queries[DetailKey(id)].data = {id}
    /\ DetailPanel = "article" => ShownArticle = {selectedBlogId}

\* The user went from one article to another while the first one's request
\* was out; the first one's response has arrived since, and the panel is on
\* the second.
C19_Witness ==
    /\ lastOp = "late"
    /\ Enabled(selectedBlogId)
    /\ DetailPanel \in {"loading", "article"}
    /\ \E id \in Ids \ {selectedBlogId} :
          /\ Enabled(id)
          /\ queries[DetailKey(id)].data = {id}

\* ----------------------------------------------------------------- C20
\* C20: the step that submits a valid draft leaves the form's fields empty,
\* with the panel open and the POST still unanswered; and the step in which
\* the POST fails neither brings the submitted values back nor closes the
\* panel.
C20_DraftResetAtSubmit ==
    [][/\ creates' = creates + 1 =>
             /\ draft' = defaultValues
             /\ isCreating'
             /\ PostCount(network') > 0
             /\ mutation'.status = "pending"
       /\ CreateFailedStep =>
             /\ draft' = draft
             /\ isCreating' = isCreating]_vars

\* A create has failed with the panel still open: the form is empty.
C20_Witness ==
    /\ lastOp = "createFailed"
    /\ mutation.status = "error"
    /\ isCreating
    /\ draft = defaultValues

\* ----------------------------------------------------------------- C21
\* C21: in the step in which a create succeeds, the create panel is closed
\* and the selection is what it was before the step, whether nothing, an
\* article selected while the POST was pending, or a panel reopened then.
C21_SuccessOnlyClosesThePanel ==
    [][CreateSucceededStep
          => /\ isCreating' = FALSE
             /\ selectedBlogId' = selectedBlogId]_vars

\* A create has succeeded while an article is on screen, its own request
\* still unanswered and the list being refreshed after the create.
C21_Witness ==
    /\ mutation.status = "success"
    /\ PostCount(network) = 0
    /\ ~isCreating
    /\ selectedBlogId \in Ids
    /\ selectedBlogId # 0
    /\ isLoading(DetailQuery)
    /\ queries[ListKey].isInvalidated

\* ----------------------------------------------------------------- C22
\* C22: the identifier 0 counts as no selection.  No request for the article
\* 0 is ever outstanding and its query never leaves the state the cache
\* created it in; with 0 selected the right panel shows the invitation to
\* select an article (or the form, while creating); and the step that
\* selects 0 closes the create panel and sends nothing.
C22_IdZeroIsNoSelection ==
    /\ [](/\ \A r \in Requests(network) : r.key # DetailKey(0)
          /\ queries[DetailKey(0)] = InitialQueryState
          /\ selectedBlogId = 0 =>
                DetailPanel = IF isCreating THEN "form" ELSE "empty")
    /\ [][(selectedBlogId # 0 /\ selectedBlogId' = 0)
             => /\ ~isCreating'
                /\ network' = network
                /\ DetailPanel' = "empty"]_vars

\* The card of the article 0 has been clicked: 0 is the selection, and the
\* right panel shows the invitation to select an article.
C22_Witness ==
    /\ selectedBlogId = 0
    /\ ~isCreating
    /\ queries[ListKey].hasData
    /\ DetailPanel = "empty"
    /\ DetailQuery = InitialQueryState

====
